---- MODULE Spec2Model ----
(***************************************************************************)
(* A model of the RSVP application in app.py: the form validator            *)
(* (validate_form), the CSV record store (ensure_csv, read_rsvps,           *)
(* write_rsvp) and the request handlers (submit, list_rsvps,                *)
(* download_rsvps).                                                         *)
(*                                                                         *)
(* A Python str is a sequence of one-character strings, so that strip(),    *)
(* int(), str(), the e-mail pattern, the csv writer's quoting, the text     *)
(* layer's newline translation and the csv reader's parser are computed     *)
(* character by character.  A form (a mapping with optional keys) is a      *)
(* record of options: <<>> is an absent key, <<s>> a key holding s.         *)
(***************************************************************************)
EXTENDS Integers, Sequences, FiniteSets, TLC

VARIABLES exists, file, form, resp, pc, row, thanked

vars == <<exists, file, form, resp, pc, row, thanked>>

-----------------------------------------------------------------------------
(* Python str primitives *)

Whitespace == {" ", "\t", "\n", "\r"}

Digits == {"0", "1", "2", "3", "4", "5", "6", "7", "8", "9"}

DigitVal(c) ==
  CASE c = "0" -> 0 [] c = "1" -> 1 [] c = "2" -> 2 [] c = "3" -> 3
    [] c = "4" -> 4 [] c = "5" -> 5 [] c = "6" -> 6 [] c = "7" -> 7
    [] c = "8" -> 8 [] c = "9" -> 9

DigitChar(d) ==
  CASE d = 0 -> "0" [] d = 1 -> "1" [] d = 2 -> "2" [] d = 3 -> "3"
    [] d = 4 -> "4" [] d = 5 -> "5" [] d = 6 -> "6" [] d = 7 -> "7"
    [] d = 8 -> "8" [] d = 9 -> "9"

\* Code points of the characters that occur in timestamps (str comparison).
Ord(c) ==
  CASE c = "-" -> 45 [] c = "." -> 46 [] c = ":" -> 58 [] c = "T" -> 84
    [] c \in Digits -> 48 + DigitVal(c)
    [] OTHER -> 97

RECURSIVE LStrip(_)
LStrip(s) == IF s # <<>> /\ Head(s) \in Whitespace THEN LStrip(Tail(s)) ELSE s

RECURSIVE RStrip(_)
RStrip(s) ==
  IF s # <<>> /\ s[Len(s)] \in Whitespace THEN RStrip(SubSeq(s, 1, Len(s) - 1)) ELSE s

\* str.strip()
Strip(s) == RStrip(LStrip(s))

\* a < b on str: lexicographic by code point, a proper prefix is smaller
RECURSIVE StrLess(_, _)
StrLess(a, b) ==
  IF b = <<>> THEN FALSE
  ELSE IF a = <<>> THEN TRUE
  ELSE IF Ord(Head(a)) # Ord(Head(b)) THEN Ord(Head(a)) < Ord(Head(b))
  ELSE StrLess(Tail(a), Tail(b))

RECURSIVE DigitsValue(_, _)
DigitsValue(s, acc) ==
  IF s = <<>> THEN acc
  ELSE IF Head(s) = "_" THEN DigitsValue(Tail(s), acc)
  ELSE DigitsValue(Tail(s), 10 * acc + DigitVal(Head(s)))

\* int(s) for a str: surrounding whitespace is ignored, one optional sign,
\* decimal digits with single underscores between digits.  ok = FALSE is
\* ValueError.
IntParse(s) ==
  LET t == Strip(s)
      signed == t # <<>> /\ t[1] \in {"+", "-"}
      u == IF signed THEN Tail(t) ELSE t
      wellFormed ==
        /\ u # <<>>
        /\ \A i \in 1..Len(u) : u[i] \in Digits \cup {"_"}
        /\ u[1] # "_"
        /\ u[Len(u)] # "_"
        /\ \A i \in 1..(Len(u) - 1) : ~(u[i] = "_" /\ u[i + 1] = "_")
      mag == DigitsValue(u, 0)
  IN  IF wellFormed
      THEN [ok |-> TRUE, val |-> IF signed /\ t[1] = "-" THEN 0 - mag ELSE mag]
      ELSE [ok |-> FALSE, val |-> 0]

RECURSIVE NatToStr(_)
NatToStr(n) ==
  IF n < 10 THEN <<DigitChar(n)>> ELSE NatToStr(n \div 10) \o <<DigitChar(n % 10)>>

\* str(n) for an int
IntToStr(n) == IF n < 0 THEN <<"-">> \o NatToStr(0 - n) ELSE NatToStr(n)

-----------------------------------------------------------------------------
(* validate_form *)

\* The keys of a row dict are strs as well: DictReader takes them from the
\* text of the header line.
TIMESTAMP == <<"t", "i", "m", "e", "s", "t", "a", "m", "p">>
NAME == <<"n", "a", "m", "e">>
EMAIL == <<"e", "m", "a", "i", "l">>
ATTENDING == <<"a", "t", "t", "e", "n", "d", "i", "n", "g">>
GUESTS == <<"g", "u", "e", "s", "t", "s">>
NOTE == <<"n", "o", "t", "e">>

FIELDNAMES == <<TIMESTAMP, NAME, EMAIL, ATTENDING, GUESTS, NOTE>>

YES == <<"y", "e", "s">>
NO == <<"n", "o">>

NameMsg == "Please enter your full name."
EmailMsg == "Enter a valid email address."
AttendingMsg == "Let us know if you can attend."
GuestsMsg == "The guest count must be between 0 and 5."

MinNameLen == 2
MaxGuests == 5

\* form.get(key, default)
Get(f, key, default) == IF f[key] = <<>> THEN default ELSE f[key][1]

\* [^@\s]
PlainChar(c) == c # "@" /\ c \notin Whitespace

\* Positions the pattern can be at after [^@\s]+ started at position p
\* (p = number of characters consumed so far)
AfterPlus(s, P) ==
  {j \in 1..Len(s) : \E p \in P : p < j /\ \A i \in (p + 1)..j : PlainChar(s[i])}

\* Positions after one literal character c
AfterChar(s, P, c) == {p + 1 : p \in {q \in P : q < Len(s) /\ s[q + 1] = c}}

\* Positions where ^[^@\s]+@[^@\s]+\.[^@\s]+ can end
PatternEnds(s) ==
  AfterPlus(s, AfterChar(s, AfterPlus(s, AfterChar(s, AfterPlus(s, {0}), "@")), "."))

\* re.match(r"^[^@\s]+@[^@\s]+\.[^@\s]+$", email): $ also matches just
\* before a newline that ends the string
EmailMatch(s) ==
  \/ Len(s) \in PatternEnds(s)
  \/ s # <<>> /\ s[Len(s)] = "\n" /\ (Len(s) - 1) \in PatternEnds(s)

NameTooShort_mut(name) == Len(name) < 1

\* len(name) < 2
NameTooShort(name) == Len(name) < MinNameLen

GuestsOutOfRange_mut(v) == v > MaxGuests

\* guests_val < 0 or guests_val > 5
GuestsOutOfRange(v) == v < 0 \/ v > MaxGuests

\* attending not in {"yes", "no"}, attending being form.get("attending")
AttendingInvalid(att) == att \notin {<<YES>>, <<NO>>}

CleanedAttending_mut(att) == IF att = <<>> THEN NO ELSE att[1]

\* attending or "no": None and the empty string are both falsy
CleanedAttending(att) == IF att = <<>> \/ att[1] = <<>> THEN NO ELSE att[1]

\* the try/except around int(guests): the value kept and whether the
\* ValueError branch ran
GuestsCheck(guests) ==
  LET p == IntParse(guests)
  IN  IF p.ok /\ ~GuestsOutOfRange(p.val)
      THEN [err |-> FALSE, val |-> p.val]
      ELSE [err |-> TRUE, val |-> 0]

validate_form(f) ==
  LET name == Strip(Get(f, "name", <<>>))
      email == Strip(Get(f, "email", <<>>))
      attending == f.attending
      g == GuestsCheck(Get(f, "guests", <<"0">>))
      note == Strip(Get(f, "note", <<>>))
      keys == (IF NameTooShort(name) THEN {"name"} ELSE {})
              \cup (IF ~EmailMatch(email) THEN {"email"} ELSE {})
              \cup (IF AttendingInvalid(attending) THEN {"attending"} ELSE {})
              \cup (IF g.err THEN {"guests"} ELSE {})
      msg(k) == CASE k = "name" -> NameMsg
                  [] k = "email" -> EmailMsg
                  [] k = "attending" -> AttendingMsg
                  [] k = "guests" -> GuestsMsg
  IN  [errors |-> [k \in keys |-> msg(k)],
       cleaned |-> (NAME :> name) @@ (EMAIL :> email)
                   @@ (ATTENDING :> CleanedAttending(attending))
                   @@ (GUESTS :> IntToStr(g.val)) @@ (NOTE :> note)]

-----------------------------------------------------------------------------
(* The csv module and the text layer of open() *)

\* Python's None where a str is expected; no str equals it, since every
\* element of a str is a single character.
None == <<"None">>

QuoteNeeded(s) == \E i \in 1..Len(s) : s[i] \in {",", "\"", "\r", "\n"}

RECURSIVE DoubleQuotes(_)
DoubleQuotes(s) ==
  IF s = <<>> THEN <<>>
  ELSE (IF Head(s) = "\"" THEN <<"\"", "\"">> ELSE <<Head(s)>>) \o DoubleQuotes(Tail(s))

\* csv.writer, QUOTE_MINIMAL: a field holding the delimiter, the quote
\* character or a character of the line terminator is quoted, quotes doubled
QuoteField(s) ==
  IF QuoteNeeded(s) THEN <<"\"">> \o DoubleQuotes(s) \o <<"\"">> ELSE s

RECURSIVE JoinFields(_)
JoinFields(fs) ==
  IF Len(fs) = 1 THEN QuoteField(fs[1])
  ELSE QuoteField(Head(fs)) \o <<",">> \o JoinFields(Tail(fs))

\* csv.writer.writerow: lineterminator is "\r\n"; the files are opened
\* with newline="" for writing, so it reaches the file unchanged
WriteRow(fs) == JoinFields(fs) \o <<"\r", "\n">>

\* DictWriter._dict_to_list: the values in FIELDNAMES order
DictToList(d) == [i \in 1..Len(FIELDNAMES) |-> d[FIELDNAMES[i]]]

\* DictWriter.writeheader()
HeaderText == WriteRow(FIELDNAMES)

Indices(s) == [i \in 1..Len(s) |-> i]

\* Reading in text mode with the default newline=None (read_rsvps opens
\* the file with open()): "\r\n" and a lone "\r" both arrive as "\n"
Translate(text) ==
  LET kept == SelectSeq(Indices(text),
                        LAMBDA i : ~(text[i] = "\n" /\ i > 1 /\ text[i - 1] = "\r"))
  IN  [k \in 1..Len(kept) |-> IF text[kept[k]] = "\r" THEN "\n" ELSE text[kept[k]]]

\* Iterating over the file gives its lines: each ends after a "\n", the
\* last one at the end of the text
Lines(text) ==
  LET nl == SelectSeq(Indices(text), LAMBDA i : text[i] = "\n")
      n == Len(nl)
      start(k) == IF k = 1 THEN 1 ELSE nl[k - 1] + 1
      whole == [k \in 1..n |-> SubSeq(text, start(k), nl[k])]
  IN  IF start(n + 1) <= Len(text)
      THEN Append(whole, SubSeq(text, start(n + 1), Len(text)))
      ELSE whole

ParseStart ==
  [state |-> "START_RECORD", field |-> <<>>, fields |-> <<>>, rows |-> <<>>, err |-> FALSE]

SaveField(st) == [st EXCEPT !.fields = Append(@, st.field), !.field = <<>>]

AddChar(st, c) == [st EXCEPT !.field = Append(@, c)]

Goto(st, s) == [st EXCEPT !.state = s]

IsNL(c) == c = "\n" \/ c = "\r"

AfterNL(c) == IF c = "EOL" THEN "START_RECORD" ELSE "EAT_CRNL"

\* parse_process_char of the csv reader (excel dialect: delimiter ",",
\* quotechar '"', doublequote, no escapechar, not strict)
StartField(st, c) ==
  IF IsNL(c) \/ c = "EOL" THEN Goto(SaveField(st), AfterNL(c))
  ELSE IF c = "\"" THEN Goto(st, "IN_QUOTED_FIELD")
  ELSE IF c = "," THEN Goto(SaveField(st), "START_FIELD")
  ELSE Goto(AddChar(st, c), "IN_FIELD")

ParseChar(st, c) ==
  CASE st.state = "START_RECORD" ->
         IF c = "EOL" THEN st
         ELSE IF IsNL(c) THEN Goto(st, "EAT_CRNL")
         ELSE StartField(st, c)
    [] st.state = "START_FIELD" -> StartField(st, c)
    [] st.state = "IN_FIELD" ->
         IF IsNL(c) \/ c = "EOL" THEN Goto(SaveField(st), AfterNL(c))
         ELSE IF c = "," THEN Goto(SaveField(st), "START_FIELD")
         ELSE AddChar(st, c)
    [] st.state = "IN_QUOTED_FIELD" ->
         IF c = "EOL" THEN st
         ELSE IF c = "\"" THEN Goto(st, "QUOTE_IN_QUOTED_FIELD")
         ELSE AddChar(st, c)
    [] st.state = "QUOTE_IN_QUOTED_FIELD" ->
         IF c = "\"" THEN Goto(AddChar(st, c), "IN_QUOTED_FIELD")
         ELSE IF c = "," THEN Goto(SaveField(st), "START_FIELD")
         ELSE IF IsNL(c) \/ c = "EOL" THEN Goto(SaveField(st), AfterNL(c))
         ELSE Goto(AddChar(st, c), "IN_FIELD")
    [] st.state = "EAT_CRNL" ->
         IF IsNL(c) THEN st
         ELSE IF c = "EOL" THEN Goto(st, "START_RECORD")
         ELSE [st EXCEPT !.err = TRUE]

EmitRow(st) == [st EXCEPT !.rows = Append(@, st.fields), !.fields = <<>>]

RECURSIVE FeedChars(_, _, _)
FeedChars(st, line, i) ==
  IF i > Len(line) \/ st.err THEN st ELSE FeedChars(ParseChar(st, line[i]), line, i + 1)

\* Reader.__next__: the characters of a line, then the end-of-line token;
\* the fields are returned once a line ends in START_RECORD
FeedLine(st, line) ==
  LET n == FeedChars(st, line, 1)
      e == IF n.err THEN n ELSE ParseChar(n, "EOL")
  IN  IF ~e.err /\ e.state = "START_RECORD" THEN EmitRow(e) ELSE e

RECURSIVE FeedLines(_, _, _)
FeedLines(st, lines, k) ==
  IF k > Len(lines) \/ st.err THEN st ELSE FeedLines(FeedLine(st, lines[k]), lines, k + 1)

\* list(csv.reader(f)): at the end of the input a pending field or an open
\* quoted field is saved as the last row.  err = TRUE is csv.Error.
ReaderRows(text) ==
  LET st == FeedLines(ParseStart, Lines(text), 1)
  IN  IF st.err THEN st
      ELSE IF st.field # <<>> \/ st.state = "IN_QUOTED_FIELD" THEN EmitRow(SaveField(st))
      ELSE st

Min(a, b) == IF a < b THEN a ELSE b

\* DictReader.__next__: dict(zip(fieldnames, row)), the surplus values under
\* the key None, the missing ones None
DictRow(names, r) ==
  LET lf == Len(names)
      lr == Len(r)
      zipped == {names[i] : i \in 1..Min(lf, lr)}
      missing == {names[i] : i \in (lr + 1)..lf}
      last(k, n) == CHOOSE i \in 1..n : names[i] = k /\ \A j \in (i + 1)..n : names[j] # k
      base == [k \in zipped \cup missing |->
                 IF k \in missing THEN None ELSE r[last(k, Min(lf, lr))]]
  IN  IF lf < lr THEN base @@ (None :> SubSeq(r, lf + 1, lr)) ELSE base

\* list(csv.DictReader(f)) from the reader's rows: the first row gives the
\* field names, empty rows are skipped
DictRows(rows) ==
  LET data == SelectSeq(Tail(rows), LAMBDA r : r # <<>>)
  IN  IF rows = <<>> THEN <<>>
      ELSE [i \in 1..Len(data) |-> DictRow(rows[1], data[i])]

-----------------------------------------------------------------------------
(* The record store: ensure_csv, read_rsvps, write_rsvp *)

\* The store is the file at DATA_PATH: whether it exists and its characters.
Store(e, f) == [exists |-> e, file |-> f]

ensure_csv_always(st) == Store(TRUE, HeaderText)

\* open("w") creates the file empty (or truncates it) and the header is
\* written into it; nothing happens when the file exists
ensure_csv(st) == IF ~st.exists THEN Store(TRUE, HeaderText) ELSE st

\* What read_rsvps returns for the reader's result p: raised = TRUE when the
\* reader raises csv.Error
ReadResult(s1, p) ==
  [store |-> s1, raised |-> p.err, rows |-> IF p.err THEN <<>> ELSE DictRows(p.rows)]

\* read_rsvps(): ensure_csv(), then list(csv.DictReader(f)) on the file
\* opened in text mode
read_rsvps(st) ==
  LET s1 == ensure_csv(st)
  IN  ReadResult(s1, ReaderRows(Translate(s1.file)))

\* write_rsvp(row): open("a") writes at the end of the file
write_rsvp(st, r) ==
  LET s1 == ensure_csv(st)
  IN  Store(TRUE, s1.file \o WriteRow(DictToList(r)))

-----------------------------------------------------------------------------
(* The request handlers *)

\* datetime.utcnow() as <<second, microsecond>>.  isoformat() leaves the
\* fraction out when the microsecond is 0.  The date and the leading digits,
\* equal in all the readings of the model, are left out of the text, and a
\* second and a microsecond are one digit each.
isoformat(t) ==
  <<"T", DigitChar(t[1])>> \o (IF t[2] = 0 THEN <<>> ELSE <<".", DigitChar(t[2])>>)

\* strftime("%Y%m%d%H%M%S"): to the second
strftime(t) == <<DigitChar(t[1])>>

Rejected_never(errors) == FALSE

\* if errors:
Rejected(errors) == DOMAIN errors # {}

NoRows_never(rows) == FALSE

\* if not rows:
NoRows(rows) == rows = <<>>

Reverse(s) == [i \in 1..Len(s) |-> s[Len(s) + 1 - i]]

\* One insertion of a stable ascending sort: x goes after every element that
\* is not greater than it
RECURSIVE InsertAsc(_, _)
InsertAsc(sorted, x) ==
  IF sorted = <<>> THEN <<x>>
  ELSE IF StrLess(x[TIMESTAMP], Head(sorted)[TIMESTAMP]) THEN <<x>> \o sorted
  ELSE <<Head(sorted)>> \o InsertAsc(Tail(sorted), x)

RECURSIVE StableSortAsc(_)
StableSortAsc(rows) ==
  IF rows = <<>> THEN <<>>
  ELSE InsertAsc(StableSortAsc(SubSeq(rows, 1, Len(rows) - 1)), rows[Len(rows)])

SortRows_reversed(rows) == Reverse(StableSortAsc(rows))

\* rows.sort(key=lambda r: r["timestamp"], reverse=True): list.sort reverses
\* the list, sorts it stably in ascending order and reverses the result
SortRows(rows) == Reverse(StableSortAsc(Reverse(rows)))

RECURSIVE SumGuests(_)
SumGuests(rows) ==
  IF rows = <<>> THEN 0
  ELSE (IF Head(rows)[ATTENDING] = YES THEN IntParse(Head(rows)[GUESTS]).val ELSE 0)
       + SumGuests(Tail(rows))

RECURSIVE SumAllGuests(_)
SumAllGuests(rows) ==
  IF rows = <<>> THEN 0
  ELSE IntParse(Head(rows)[GUESTS]).val + SumAllGuests(Tail(rows))

CountWhere(rows, v) == Cardinality({i \in 1..Len(rows) : rows[i][ATTENDING] = v})

Totals_allguests(rows) ==
  [yes |-> CountWhere(rows, YES), no |-> CountWhere(rows, NO), guests |-> SumAllGuests(rows)]

\* the totals dict of list_rsvps
Totals(rows) ==
  [yes |-> CountWhere(rows, YES), no |-> CountWhere(rows, NO), guests |-> SumGuests(rows)]

\* The rows on which the sort key or the totals raise (KeyError, TypeError
\* or ValueError): only a file that is not what the writer produced has them
Unusable(r) ==
  \/ TIMESTAMP \notin DOMAIN r
  \/ r[TIMESTAMP] = None
  \/ ATTENDING \notin DOMAIN r
  \/ /\ r[ATTENDING] = YES
     /\ \/ GUESTS \notin DOMAIN r
        \/ r[GUESTS] = None
        \/ ~IntParse(r[GUESTS]).ok

\* The response of list_rsvps for what read_rsvps returned
ListResponse(rd) ==
  IF rd.raised THEN [kind |-> "list", status |-> 500]
  ELSE IF NoRows(rd.rows) THEN [kind |-> "list", status |-> 404]
  ELSE IF \E i \in 1..Len(rd.rows) : Unusable(rd.rows[i])
    THEN [kind |-> "list", status |-> 500]
  ELSE [kind |-> "list", status |-> 200,
        rows |-> SortRows(rd.rows), totals |-> Totals(SortRows(rd.rows))]

\* The response of download_rsvps: send_file serves the file as it is
DownloadResponse(rd, content, t) ==
  IF rd.raised THEN [kind |-> "download", status |-> 500]
  ELSE IF NoRows(rd.rows) THEN [kind |-> "download", status |-> 404]
  ELSE [kind |-> "download", status |-> 200, body |-> content, download_name |-> strftime(t)]

\* The row submit builds: {"timestamp": ..., **cleaned}
MakeRow(t, cleaned) == (TIMESTAMP :> isoformat(t)) @@ cleaned

ErrorResponse(errors, f) ==
  [kind |-> "submit", status |-> 400, errors |-> errors, form_data |-> f]

ThanksResponse(r) == [kind |-> "submit", status |-> 200, rsvp |-> r]

-----------------------------------------------------------------------------
(* Bounds and inputs *)

MaxRows == 3
GuestsLen == 2

Procs == {"p1", "p2"}

\* Clock readings <<second, microsecond>>; the wall clock may repeat a
\* reading and may step back
Clock == {<<1, 5>>, <<2, 0>>}

Form(n, e, a, g, t) == [name |-> n, email |-> e, attending |-> a, guests |-> g, note |-> t]

EmptyForm == Form(<<>>, <<>>, <<>>, <<>>, <<>>)

Addr == <<"a", "@", "b", ".", "c">>

\* Forms posted to the running application: three that pass (with a comma,
\* a quote and line breaks in name and note) and three that do not
AcceptedForms ==
  { Form(<<<<"a", "b">>>>, <<Addr>>, <<YES>>, <<<<"2">>>>, <<>>),
    Form(<<<<" ", "a", "\r", "b", " ">>>>, <<Addr>>, <<NO>>, <<<<"3">>>>,
         <<<<"x", "\r", "\n", "y">>>>),
    Form(<<<<"a", ",", "\"">>>>, <<Addr>>, <<YES>>, <<<<"1">>>>, <<<<"x", "\n", "y">>>>) }

RejectedForms ==
  { Form(<<<<"a">>>>, <<Addr>>, <<YES>>, <<<<"2">>>>, <<>>),
    Form(<<<<"a", "b">>>>, <<Addr>>, <<>>, <<<<"7">>>>, <<>>),
    EmptyForm }

AppForms == AcceptedForms \cup RejectedForms

SeqsUpTo(S, n) == UNION {[1..k -> S] : k \in 0..n}

Opt(S) == {<<>>} \cup {<<s>> : s \in S}

\* Raw inputs of validate_form
ValNames == Opt({ <<"a">>, <<" ", "a", " ">>, <<"\t", "a", "b", "\n">> })

ValEmails ==
  Opt({ Addr, <<"a", "@", "b">>, <<"a", " ", "b", "@", "c", ".", "d">>, <<"@", "c", ".", "d">>,
        <<" ", "a", "@", "b", ".", "c", "\n">>, <<"a", "@", "@", "b", ".", "c">>,
        <<"a", "@", "b", ".", ".">> })

ValAttending == Opt({ <<>>, YES, NO, <<"y", "e", "s", " ">> })

GuestChars == {"0", "5", "7", "-", "+", " ", "_"}

ValGuests ==
  Opt(SeqsUpTo(GuestChars, GuestsLen) \cup {<<"a">>, <<"a", "b", "c">>, <<" ", "3", " ">>})

ValNotes == Opt({ <<" ", "x", " ">> })

ValForms ==
  { Form(n, e, a, g, t) : n \in ValNames, e \in ValEmails, a \in ValAttending,
                          g \in ValGuests, t \in ValNotes }

-----------------------------------------------------------------------------
(* The application serving one request at a time *)

NoRequest == [op |-> "none"]

Init ==
  /\ exists = FALSE
  /\ file = <<>>
  /\ form = EmptyForm
  /\ resp = [kind |-> "none"]
  /\ pc = [p \in Procs |-> "idle"]
  /\ row = [p \in Procs |-> NoRequest]
  /\ thanked = <<>>

\* GET /
Index ==
  /\ resp' = [kind |-> "index", status |-> 200]
  /\ form' = EmptyForm
  /\ UNCHANGED <<exists, file, pc, row, thanked>>

\* POST /submit with form f, the clock reading t
Submit(f, t) ==
  LET v == validate_form(f)
      r == MakeRow(t, v.cleaned)
      st == write_rsvp(Store(exists, file), r)
  IN  /\ form' = f
      /\ IF Rejected(v.errors)
         THEN /\ resp' = ErrorResponse(v.errors, f)
              /\ UNCHANGED <<exists, file, thanked>>
         ELSE /\ Len(thanked) < MaxRows
              /\ exists' = st.exists
              /\ file' = st.file
              /\ thanked' = Append(thanked, r)
              /\ resp' = ThanksResponse(r)
      /\ UNCHANGED <<pc, row>>

\* GET /rsvps
ListRsvps ==
  \E rd \in {read_rsvps(Store(exists, file))} :
      /\ exists' = rd.store.exists
      /\ file' = rd.store.file
      /\ resp' = ListResponse(rd)
      /\ form' = EmptyForm
      /\ UNCHANGED <<pc, row, thanked>>

\* GET /rsvps.csv at the clock reading t
DownloadRsvps(t) ==
  \E rd \in {read_rsvps(Store(exists, file))} :
      /\ exists' = rd.store.exists
      /\ file' = rd.store.file
      /\ resp' = DownloadResponse(rd, rd.store.file, t)
      /\ form' = EmptyForm
      /\ UNCHANGED <<pc, row, thanked>>

Next ==
  \/ Index
  \/ \E f \in AppForms, t \in Clock : Submit(f, t)
  \/ ListRsvps
  \/ \E t \in Clock : DownloadRsvps(t)

Spec == Init /\ [][Next]_vars

-----------------------------------------------------------------------------
(* validate_form on its own *)

InitValidate ==
  /\ exists = FALSE
  /\ file = <<>>
  /\ form \in ValForms
  /\ resp = [kind |-> "none"]
  /\ pc = [p \in Procs |-> "idle"]
  /\ row = [p \in Procs |-> NoRequest]
  /\ thanked = <<>>

Validate ==
  /\ resp.kind = "none"
  /\ resp' = [kind |-> "validate", errors |-> validate_form(form).errors,
              cleaned |-> validate_form(form).cleaned]
  /\ UNCHANGED <<exists, file, form, pc, row, thanked>>

NextValidate == Validate

SpecValidate == InitValidate /\ [][NextValidate]_vars

-----------------------------------------------------------------------------
(* The application serving requests concurrently (app.run starts the         *)
(* threaded development server): a handler is a sequence of steps, one per   *)
(* file-system operation, and the steps of different requests interleave.    *)

ConcForms ==
  { Form(<<<<"a", "b">>>>, <<Addr>>, <<YES>>, <<<<"2">>>>, <<>>),
    Form(<<<<"a", ",", "\"">>>>, <<Addr>>, <<YES>>, <<<<"1">>>>, <<<<"x", "\n", "y">>>>),
    EmptyForm }

ConcClock == {<<1, 0>>}

\* A write of text at offset 0 of a file opened with "w" by a handle that
\* does not append
Overwrite(content, text) == text \o SubSeq(content, Len(text) + 1, Len(content))

InFlight == Cardinality({p \in Procs : row[p].op = "submit"})

Body(p) == IF row[p].op = "submit" THEN "append" ELSE "read"

\* submit up to the call of write_rsvp (lines 80-94)
BeginSubmit(p, f, t) ==
  LET v == validate_form(f)
  IN  /\ pc[p] = "idle"
      /\ form' = f
      /\ IF Rejected(v.errors)
         THEN /\ resp' = ErrorResponse(v.errors, f)
              /\ UNCHANGED <<pc, row>>
         ELSE /\ Len(thanked) + InFlight < MaxRows
              /\ row' = [row EXCEPT ![p] = [op |-> "submit", rsvp |-> MakeRow(t, v.cleaned)]]
              /\ pc' = [pc EXCEPT ![p] = "ensure"]
              /\ UNCHANGED resp
      /\ UNCHANGED <<exists, file, thanked>>

\* list_rsvps and download_rsvps up to the call of read_rsvps
BeginRead(p, op) ==
  /\ pc[p] = "idle"
  /\ row' = [row EXCEPT ![p] = [op |-> op]]
  /\ pc' = [pc EXCEPT ![p] = "ensure"]
  /\ UNCHANGED <<exists, file, form, resp, thanked>>

\* ensure_csv: if not DATA_PATH.exists()
CheckExists(p) ==
  /\ pc[p] = "ensure"
  /\ pc' = [pc EXCEPT ![p] = IF exists THEN Body(p) ELSE "open_w"]
  /\ UNCHANGED <<exists, file, form, resp, row, thanked>>

\* ensure_csv: DATA_PATH.open("w") creates the file or truncates it
OpenW(p) ==
  /\ pc[p] = "open_w"
  /\ exists' = TRUE
  /\ file' = <<>>
  /\ pc' = [pc EXCEPT ![p] = "header"]
  /\ UNCHANGED <<form, resp, row, thanked>>

\* ensure_csv: writeheader() reaches the file when the with block closes it
WriteHeader(p) ==
  /\ pc[p] = "header"
  /\ file' = Overwrite(file, HeaderText)
  /\ pc' = [pc EXCEPT ![p] = Body(p)]
  /\ UNCHANGED <<exists, form, resp, row, thanked>>

\* write_rsvp after ensure_csv, and the rest of submit
AppendRow(p) ==
  /\ pc[p] = "append"
  /\ exists' = TRUE
  /\ file' = file \o WriteRow(DictToList(row[p].rsvp))
  /\ thanked' = Append(thanked, row[p].rsvp)
  /\ resp' = ThanksResponse(row[p].rsvp)
  /\ pc' = [pc EXCEPT ![p] = "idle"]
  /\ row' = [row EXCEPT ![p] = NoRequest]
  /\ UNCHANGED form

\* read_rsvps after ensure_csv, and the rest of list_rsvps; download_rsvps
\* goes on to send_file when there are rows
ReadRows(p) ==
  /\ pc[p] = "read"
  /\ \E rd \in {ReadResult(Store(exists, file), ReaderRows(Translate(file)))} :
       IF row[p].op = "list"
       THEN /\ resp' = ListResponse(rd)
            /\ pc' = [pc EXCEPT ![p] = "idle"]
            /\ row' = [row EXCEPT ![p] = NoRequest]
       ELSE IF rd.raised \/ NoRows(rd.rows)
       THEN /\ resp' = DownloadResponse(rd, file, <<0, 0>>)
            /\ pc' = [pc EXCEPT ![p] = "idle"]
            /\ row' = [row EXCEPT ![p] = NoRequest]
       ELSE /\ pc' = [pc EXCEPT ![p] = "send"]
            /\ UNCHANGED <<resp, row>>
  /\ UNCHANGED <<exists, file, form, thanked>>

\* download_rsvps: send_file reads the file
SendFile(p, t) ==
  /\ pc[p] = "send"
  /\ resp' = [kind |-> "download", status |-> 200, body |-> file, download_name |-> strftime(t)]
  /\ pc' = [pc EXCEPT ![p] = "idle"]
  /\ row' = [row EXCEPT ![p] = NoRequest]
  /\ UNCHANGED <<exists, file, form, thanked>>

NextConc ==
  \E p \in Procs :
    \/ \E f \in ConcForms, t \in ConcClock : BeginSubmit(p, f, t)
    \/ \E op \in {"list", "download"} : BeginRead(p, op)
    \/ CheckExists(p)
    \/ OpenW(p)
    \/ WriteHeader(p)
    \/ AppendRow(p)
    \/ ReadRows(p)
    \/ \E t \in ConcClock : SendFile(p, t)

SpecConc == Init /\ [][NextConc]_vars

-----------------------------------------------------------------------------
(* Properties *)

\* The records list(csv.DictReader(f)) gives for a store
RowsOf(e, f) == IF e THEN DictRows(ReaderRows(Translate(f)).rows) ELSE <<>>

StoredRows == RowsOf(exists, file)

IsPrefix(a, b) == Len(a) <= Len(b) /\ SubSeq(b, 1, Len(a)) = a

\* local@domain.tld: one "@" with something before it, no whitespace, and a
\* "." after the "@" that is neither next to it nor last
EmailShape(s) ==
  \E a \in 2..Len(s) :
    /\ s[a] = "@"
    /\ \A i \in 1..Len(s) : i # a => (s[i] # "@" /\ s[i] \notin Whitespace)
    /\ \E d \in (a + 2)..(Len(s) - 1) : s[d] = "."

\* The fields of a raw form whose rule is violated
Violated(f) ==
  LET g == IntParse(Get(f, "guests", <<"0">>))
  IN  {k \in {"name", "email", "attending", "guests"} :
         \/ k = "name" /\ Len(Strip(Get(f, "name", <<>>))) < 2
         \/ k = "email" /\ ~EmailShape(Strip(Get(f, "email", <<>>)))
         \/ k = "attending" /\ f.attending # <<YES>> /\ f.attending # <<NO>>
         \/ k = "guests" /\ ~(g.ok /\ g.val \in 0..5)}

FixedMessage(k) ==
  CASE k = "name" -> "Please enter your full name."
    [] k = "email" -> "Enter a valid email address."
    [] k = "attending" -> "Let us know if you can attend."
    [] k = "guests" -> "The guest count must be between 0 and 5."

\* C1: the keys of the errors mapping validate_form returns are exactly the
\* fields whose rule the raw input violates, each with its fixed message; so
\* errors is empty when no rule is violated and has one key when one is.
C1_ErrorsAreTheViolatedRules ==
  resp.kind = "validate" =>
    /\ DOMAIN resp.errors = Violated(form)
    /\ \A k \in DOMAIN resp.errors : resp.errors[k] = FixedMessage(k)

C1_Witness ==
  /\ resp.kind = "validate"
  /\ Violated(form) = {"email"}
  /\ DOMAIN resp.errors = {"email"}
  /\ form.email = <<<<"a", "@", "b">>>>

\* C6 as stated: the cleaned attending is the raw value whenever the field is
\* present, whatever string it holds, and "no" when it is absent.
C6_CleanedAttendingIsRawWhenPresent ==
  resp.kind = "validate" =>
    resp.cleaned[ATTENDING] = (IF form.attending = <<>> THEN NO ELSE form.attending[1])

\* C6 amended: the cleaned attending is the raw value when the field is
\* present and not the empty string, and "no" when it is absent or empty.
C6_CleanedAttendingIsRawWhenNonEmpty ==
  resp.kind = "validate" =>
    /\ (form.attending # <<>> /\ form.attending # <<<<>>>>)
         => resp.cleaned[ATTENDING] = form.attending[1]
    /\ (form.attending = <<>> \/ form.attending = <<<<>>>>)
         => resp.cleaned[ATTENDING] = NO

C6_Witness ==
  /\ resp.kind = "validate"
  /\ form.attending = <<<<>>>>
  /\ resp.cleaned[ATTENDING] = NO

\* C7: a guests value (absent: "0") that does not parse as an integer, or
\* parses outside 0..5, gives the guests error and the cleaned guests "0";
\* otherwise no guests error and the cleaned guests is the parsed integer as a
\* string ("5" gives "5", "0" gives "0"; "7", "-" followed by a digit and
\* "abc" give "0" with the error).
C7_GuestsNormalised ==
  resp.kind = "validate" =>
    LET raw == IF form.guests = <<>> THEN <<"0">> ELSE form.guests[1]
        p == IntParse(raw)
        bad == ~p.ok \/ p.val < 0 \/ p.val > 5
        err == "guests" \in DOMAIN resp.errors
    IN  /\ bad => (err /\ resp.cleaned[GUESTS] = <<"0">>)
        /\ ~bad => (~err /\ resp.cleaned[GUESTS] = IntToStr(p.val))
        /\ raw \in {<<"5">>, <<"0">>} => (~err /\ resp.cleaned[GUESTS] = raw)
        /\ raw \in {<<"7">>, <<"-", "5">>, <<"a", "b", "c">>}
             => (err /\ resp.cleaned[GUESTS] = <<"0">>)

C7_Witness ==
  /\ resp.kind = "validate"
  /\ form.guests = <<<<"7">>>>
  /\ "guests" \in DOMAIN resp.errors
  /\ resp.cleaned[GUESTS] = <<"0">>

FieldSet == {FIELDNAMES[i] : i \in 1..Len(FIELDNAMES)}

\* A record that satisfies the four rules
ValidRecord(r) ==
  /\ DOMAIN r = FieldSet
  /\ Len(Strip(r[NAME])) >= 2
  /\ EmailShape(r[EMAIL])
  /\ r[ATTENDING] \in {YES, NO}
  /\ r[GUESTS] \in {<<"0">>, <<"1">>, <<"2">>, <<"3">>, <<"4">>, <<"5">>}

\* What a submit step does to the store, read from the response it gives
C2_SubmitStep ==
  resp'.kind = "submit" =>
    /\ resp'.status = 400 =>
         /\ DOMAIN validate_form(form').errors # {}
         /\ exists' = exists /\ file' = file
    /\ resp'.status = 200 =>
         /\ DOMAIN validate_form(form').errors = {}
         /\ \E t \in Clock : resp'.rsvp[TIMESTAMP] = isoformat(t)
         /\ DOMAIN resp'.rsvp = FieldSet
         /\ \A k \in FieldSet \ {TIMESTAMP} :
              resp'.rsvp[k] = validate_form(form').cleaned[k]
         /\ exists'
         /\ file' = (IF exists THEN file ELSE HeaderText) \o WriteRow(DictToList(resp'.rsvp))
         /\ Len(RowsOf(exists', file')) = Len(RowsOf(exists, file)) + 1
    /\ resp'.status \in {200, 400}

\* C2: a submission with errors leaves the store unchanged and is answered
\* 400; one without errors appends exactly one row, the timestamp plus the
\* cleaned fields; so every row of the store has a trimmed name of at least 2
\* characters, a valid-shaped email, attending yes or no and guests in 0..5.
C2_OnlyValidRowsPersisted ==
  /\ [](\A rows \in {StoredRows} : \A i \in 1..Len(rows) : ValidRecord(rows[i]))
  /\ [][C2_SubmitStep]_vars

C2_Witness ==
  /\ resp.kind = "submit"
  /\ resp.status = 400
  /\ Len(StoredRows) = 2
  /\ Len(thanked) = 2

\* The rows before and after a step that changed the store
C3_Rows(before, after) ==
  /\ IsPrefix(before, after)
  /\ after # before =>
       /\ resp'.kind = "submit" /\ resp'.status = 200
       /\ Len(after) = Len(before) + 1

C3_Step ==
  /\ exists => (exists' /\ IsPrefix(file, file'))
  /\ (exists /\ resp'.kind \in {"list", "download"}) => file' = file
  /\ \/ exists' = exists /\ file' = file
     \/ \E before \in {RowsOf(exists, file)}, after \in {RowsOf(exists', file')} :
          C3_Rows(before, after)

\* C3: the store is append-only: over every step the rows present before
\* are an unchanged prefix of the rows present after; ensure_csv on an
\* existing store (every read, every write) leaves its content as it is; only
\* an accepted submission adds a row, exactly one, at the end.
C3_AppendOnly == [][C3_Step]_vars

C3_Witness ==
  /\ resp.kind = "list"
  /\ resp.status = 200
  /\ Len(StoredRows) = 2
  /\ Len(file) > Len(HeaderText)

\* C4: after write_rsvp(record), read_rsvps() returns the records appended
\* so far, in order, the last one with exactly the six fields and values
\* string-for-string identical to the appended record.
C4_RoundTrip ==
  (resp.kind = "submit" /\ resp.status = 200) =>
    \A rows \in {StoredRows} :
      /\ Len(rows) = Len(thanked)
      /\ rows[Len(rows)] = resp.rsvp

Perms(n) == {f \in [1..n -> 1..n] : \A i, j \in 1..n : f[i] = f[j] => i = j}

RECURSIVE RowsText(_, _, _)
RowsText(rs, order, i) ==
  IF i > Len(rs) THEN <<>>
  ELSE WriteRow(DictToList(rs[order[i]])) \o RowsText(rs, order, i + 1)

\* C5: under every interleaving, each accepted record is in the store as
\* exactly one intact row, in some order, and row 1 is the header (whenever
\* no ensure_csv is between creating the file and writing its header).
C5_NoRowLostOrCorrupted ==
  (exists /\ \A p \in Procs : pc[p] # "header") =>
    \E order \in Perms(Len(thanked)) : file = HeaderText \o RowsText(thanked, order, 1)

RECURSIVE GuestsOfYes(_, _)
GuestsOfYes(rows, i) ==
  IF i = 0 THEN 0
  ELSE GuestsOfYes(rows, i - 1)
       + (IF rows[i][ATTENDING] = YES THEN DigitVal(rows[i][GUESTS][1]) ELSE 0)

\* C8: the totals of the listing: yes and no count the records with that
\* attending value, guests sums the guests of the "yes" records only; the
\* records (yes,2), (no,3), (yes,1) in any order give yes=2, no=1, guests=3.
C8_Totals ==
  (resp.kind = "list" /\ resp.status = 200) =>
    \A rows \in {StoredRows} :
    LET att == [i \in 1..Len(rows) |-> <<rows[i][ATTENDING], rows[i][GUESTS]>>]
    IN  /\ resp.totals.yes = Cardinality({i \in 1..Len(rows) : rows[i][ATTENDING] = YES})
        /\ resp.totals.no = Cardinality({i \in 1..Len(rows) : rows[i][ATTENDING] = NO})
        /\ resp.totals.guests = GuestsOfYes(rows, Len(rows))
        /\ att = << <<YES, <<"2">>>>, <<NO, <<"3">>>>, <<YES, <<"1">>>> >>
             => resp.totals = [yes |-> 2, no |-> 1, guests |-> 3]

C8_Witness ==
  /\ resp.kind = "list"
  /\ resp.status = 200
  /\ Len(StoredRows) = 3
  /\ StoredRows[1][ATTENDING] = YES /\ StoredRows[1][GUESTS] = <<"2">>
  /\ StoredRows[2][ATTENDING] = NO /\ StoredRows[2][GUESTS] = <<"3">>
  /\ StoredRows[3][ATTENDING] = YES /\ StoredRows[3][GUESTS] = <<"1">>
  /\ resp.totals = [yes |-> 2, no |-> 1, guests |-> 3]

\* C9: the listing is a permutation of the stored records, by timestamp
\* descending, records with equal timestamps in their append order.
C9_ListingOrder ==
  (resp.kind = "list" /\ resp.status = 200) =>
    \A rows \in {StoredRows} :
    LET n == Len(rows)
    IN  /\ Len(resp.rows) = n
        /\ \E p \in Perms(n) :
             /\ \A i \in 1..n : resp.rows[i] = rows[p[i]]
             /\ \A i, j \in 1..n : i < j =>
                  \/ StrLess(rows[p[j]][TIMESTAMP], rows[p[i]][TIMESTAMP])
                  \/ rows[p[j]][TIMESTAMP] = rows[p[i]][TIMESTAMP] /\ p[i] < p[j]

C9_Witness ==
  /\ resp.kind = "list"
  /\ resp.status = 200
  /\ Len(resp.rows) = 3
  /\ resp.rows[1][TIMESTAMP] = resp.rows[2][TIMESTAMP]
  /\ resp.rows[1] # resp.rows[2]
  /\ resp.rows[3][TIMESTAMP] # resp.rows[2][TIMESTAMP]
  /\ StoredRows[1] = resp.rows[3]

\* C10: a store that was only initialised reads back as no records, and the
\* listing and the export answer 404 exactly when the store holds no record
\* and 200 otherwise.
C10_NotFoundIffEmpty ==
  /\ (exists /\ file = HeaderText) => StoredRows = <<>>
  /\ resp.kind \in {"list", "download"} =>
       /\ exists
       /\ resp.status = 404 <=> file = HeaderText
       /\ resp.status = 200 <=> Len(file) > Len(HeaderText)
       /\ Len(file) > Len(HeaderText) <=> thanked # <<>>

C10_Witness ==
  /\ resp.kind = "download"
  /\ resp.status = 404
  /\ file = HeaderText
  /\ StoredRows = <<>>

====
